---- MODULE Spec2Model ----
(***************************************************************************)
(* Model of programs/marginfi/src/state/marginfi_account.rs:               *)
(* the lending-account ledger (16 optional Balance slots), the             *)
(* BankAccountWrapper mutation API (find_or_create, account_deposit,       *)
(* account_withdraw, account_borrow) and the RiskEngine health check.      *)
(*                                                                         *)
(* I80F48 is a 128-bit two's-complement fixed-point number with 48         *)
(* fractional bits.  TLC integers are 32-bit, so the type is modelled with *)
(* the same checked semantics at a reduced width: I80F48_NBITS bits in     *)
(* total, FRAC_NBITS of them fractional.  A value is held as its raw bit   *)
(* pattern (value * 2^FRAC_NBITS).                                         *)
(*                                                                         *)
(* Bank (marginfi_group.rs) is not part of the source at hand; its share   *)
(* conversions and aggregate counters are modelled from the specification  *)
(* (section 6, "Bank exchange-rate API").                                  *)
(***************************************************************************)
EXTENDS Integers, Sequences, FiniteSets, TLC

VARIABLES banks, lending_accounts, wrapper, result

vars == <<banks, lending_accounts, wrapper, result>>

----------------------------------------------------------------------------
(* Bounds of the model *)

\* total width of the modelled fixed-point type (128 in the program)
I80F48_NBITS == 28

\* fractional bits of the modelled fixed-point type (48 in the program)
FRAC_NBITS == 1

\* small amounts are fed only while the counters they touch are within
\* MaxShares whole units; the amount HUGE is always available
MaxShares == 1

\* number of slots already occupied in the initial state of SpecFull
Prefilled == 14

\* largest asset quantity (raw bits) fed to the valuation functions, beside HUGE
MaxQuantity == 8

\* largest oracle price mantissa fed to the valuation functions, beside 10 and 100
MaxMantissa == 6

----------------------------------------------------------------------------
(* Program constants *)

EXPONENT == 6

MAX_LENDING_ACCOUNT_BALANCES == 16

EXP_10_LEN == 15

----------------------------------------------------------------------------
(* I80F48: checked fixed-point arithmetic *)

ONE == 2 ^ FRAC_NBITS

I80F48_MAX == 2 ^ (I80F48_NBITS - 1) - 1

I80F48_MIN == -(2 ^ (I80F48_NBITS - 1))

ZERO == 0

Abs(x) == IF x < 0 THEN -x ELSE x

Max(a, b) == IF a >= b THEN a ELSE b

Min(a, b) == IF a <= b THEN a ELSE b

\* Option<I80F48>: Some(v) / None
Some(x) == [ok |-> TRUE, v |-> x]

NoneV == [ok |-> FALSE, v |-> 0]

InRange(x) == I80F48_MIN <= x /\ x <= I80F48_MAX

Checked(x) == IF InRange(x) THEN Some(x) ELSE NoneV

\* integer division truncating toward zero (Rust `/`)
TruncDiv(a, b) ==
    IF (a >= 0) = (b > 0) THEN Abs(a) \div Abs(b) ELSE -(Abs(a) \div Abs(b))

\* two's-complement wrap of an out-of-range raw value
WrapAdd(a, b) ==
    LET m == 2 ^ I80F48_NBITS
        s == (a + b - I80F48_MIN) % m
    IN  Some(s + I80F48_MIN)

checked_add(a, b) == Checked(a + b)

checked_sub(a, b) == Checked(a - b)

\* the wide product is shifted right by FRAC_NBITS (rounding toward -infinity)
checked_mul(a, b) ==
    IF a = 0 \/ b = 0 THEN Some(0)
    ELSE IF Abs(a) > 2147483647 \div Abs(b) THEN NoneV
    ELSE Checked((a * b) \div ONE)

\* (a << FRAC_NBITS) / b, truncated; None on a zero divisor or overflow
checked_div(a, b) ==
    IF b = 0 THEN NoneV
    ELSE IF Abs(a) > 2147483647 \div ONE THEN NoneV
    ELSE Checked(TruncDiv(a * ONE, b))

\* unary minus of I80F48 (wraps at I80F48_MIN)
Neg(x) == IF x = I80F48_MIN THEN I80F48_MIN ELSE -x

----------------------------------------------------------------------------
(* Bank: the external collaborator of section 6 *)

NoBank ==
    [some |-> FALSE, mint_pk |-> 0,
     deposit_share_value |-> 0, liability_share_value |-> 0,
     total_deposit_shares |-> 0, total_liability_shares |-> 0,
     price |-> 0, expo |-> 0,
     init_weights |-> <<0, 0>>, maint_weights |-> <<0, 0>>]

\* depositAmount(shares) -> amount
get_deposit_amount(bank, shares) == checked_mul(shares, bank.deposit_share_value)

\* liabilityAmount(shares) -> amount
get_liability_amount(bank, shares) == checked_mul(shares, bank.liability_share_value)

\* depositShares(amount) -> shares
get_deposit_shares(bank, value) == checked_div(value, bank.deposit_share_value)

\* liabilityShares(amount) -> shares
get_liability_shares(bank, value) == checked_div(value, bank.liability_share_value)

\* result of a fallible update: ok, and the object after the call
Upd(ok, obj) == [ok |-> ok, obj |-> obj]

Bank_change_deposit_shares(bank, delta) ==
    LET r == checked_add(bank.total_deposit_shares, delta)
    IN  IF r.ok THEN Upd(TRUE, [bank EXCEPT !.total_deposit_shares = r.v])
        ELSE Upd(FALSE, bank)

Bank_change_liability_shares(bank, delta) ==
    LET r == checked_add(bank.total_liability_shares, delta)
    IN  IF r.ok THEN Upd(TRUE, [bank EXCEPT !.total_liability_shares = r.v])
        ELSE Upd(FALSE, bank)

\* config.get_weights(weight_type) -> (deposit weight, liability weight)
get_weights(bank, weight_type) ==
    IF weight_type = "Initial" THEN bank.init_weights ELSE bank.maint_weights

----------------------------------------------------------------------------
(* Balance and LendingAccount *)

Slots == 0 .. (MAX_LENDING_ACCOUNT_BALANCES - 1)

\* an empty slot (Option::None)
NoBalance ==
    [active |-> FALSE, bank_index |-> 0, deposit_shares |-> 0, liability_shares |-> 0]

NewBalance(bank_index) ==
    [active |-> TRUE, bank_index |-> bank_index % 256,
     deposit_shares |-> ZERO, liability_shares |-> ZERO]

EmptyLendingAccount == [i \in Slots |-> NoBalance]

SetMin(S) == CHOOSE x \in S : \A y \in S : x <= y

ActiveSlots(balances) == {i \in Slots : balances[i].active}

SetMax(S) == CHOOSE x \in S : \A y \in S : x >= y

\* the last empty slot instead of the first
get_first_empty_balance_last(balances) ==
    LET empty == {i \in Slots : ~balances[i].active}
    IN  IF empty = {} THEN -1 ELSE SetMax(empty)

\* self.balances.iter().position(|b| b.is_none()); -1 stands for None
get_first_empty_balance(balances) ==
    LET empty == {i \in Slots : ~balances[i].active}
    IN  IF empty = {} THEN -1 ELSE SetMin(empty)

\* a lookup that compares the slot's bank with the wrong index
active_position_shifted(balances, bank_index) ==
    LET hit == {i \in ActiveSlots(balances) : balances[i].bank_index = bank_index + 1}
    IN  IF hit = {} THEN -1
        ELSE Cardinality({j \in ActiveSlots(balances) : j < SetMin(hit)})

\* get_active_balances_iter().position(|b| b.bank_index as usize == bank_index):
\* the rank, among the active balances, of the first one for the bank; -1 for None
active_position(balances, bank_index) ==
    LET hit == {i \in ActiveSlots(balances) : balances[i].bank_index = bank_index}
    IN  IF hit = {} THEN -1
        ELSE Cardinality({j \in ActiveSlots(balances) : j < SetMin(hit)})

\* a wrapping addition in place of the checked one
Balance_change_deposit_shares_wrapping(balance, delta) ==
    Upd(TRUE, [balance EXCEPT !.deposit_shares = WrapAdd(balance.deposit_shares, delta).v])

\* the delta taken off instead of added
Balance_change_deposit_shares_negated(balance, delta) ==
    LET r == checked_sub(balance.deposit_shares, delta)
    IN  IF r.ok THEN Upd(TRUE, [balance EXCEPT !.deposit_shares = r.v])
        ELSE Upd(FALSE, balance)

\* the slot is given back once both counters are zero
Balance_change_deposit_shares_freeing(balance, delta) ==
    LET r == checked_add(balance.deposit_shares, delta)
    IN  IF ~r.ok THEN Upd(FALSE, balance)
        ELSE IF r.v = 0 /\ balance.liability_shares = 0 THEN Upd(TRUE, NoBalance)
        ELSE Upd(TRUE, [balance EXCEPT !.deposit_shares = r.v])

Balance_change_deposit_shares(balance, delta) ==
    LET r == checked_add(balance.deposit_shares, delta)
    IN  IF r.ok THEN Upd(TRUE, [balance EXCEPT !.deposit_shares = r.v])
        ELSE Upd(FALSE, balance)

Balance_change_liability_shares(balance, delta) ==
    LET r == checked_add(balance.liability_shares, delta)
    IN  IF r.ok THEN Upd(TRUE, [balance EXCEPT !.liability_shares = r.v])
        ELSE Upd(FALSE, balance)

----------------------------------------------------------------------------
(* BankAccountWrapper *)

NoWrapper == [some |-> FALSE, account |-> "", index |-> 0, bank_index |-> 0]

\* what a call on the wrapper leaves behind: the returned result and the
\* Balance and Bank as they stand at the return (writes made before a `?`
\* returned early are kept)
Out(ret, balance, bank) == [ret |-> ret, balance |-> balance, bank |-> bank]

\* Lines 374-397 (and 328-351): bind the Balance of bank_index, creating it
\* in the first empty slot when the account has none.
\* Gives the result, the balances after the call and the bound slot.
find_balance_or_create(balances, bank_index) ==
    LET position == active_position(balances, bank_index)
        empty_index == get_first_empty_balance(balances)
    IN  IF position >= 0
        THEN IF position \notin Slots
             THEN [ret |-> "LendingAccountBalanceNotFound", balances |-> balances, index |-> 0]
             ELSE IF ~balances[position].active
             THEN [ret |-> "Panic", balances |-> balances, index |-> 0]
             ELSE [ret |-> "Ok", balances |-> balances, index |-> position]
        ELSE IF empty_index < 0
             THEN [ret |-> "LendingAccountBalanceSlotsFull", balances |-> balances, index |-> 0]
             ELSE [ret |-> "Ok",
                   balances |-> [balances EXCEPT ![empty_index] = NewBalance(bank_index)],
                   index |-> empty_index]

\* lending_pool.banks.get_mut(bank_index) ... ok_or(BankNotFound)
bank_resolves(pool, bank_index) ==
    bank_index \in DOMAIN pool /\ pool[bank_index].some

find_or_create(bank_index, pool, balances) ==
    IF ~bank_resolves(pool, bank_index)
    THEN [ret |-> "BankNotFound", balances |-> balances, index |-> 0]
    ELSE find_balance_or_create(balances, bank_index)

\* the first bank of the pool whose mint is `mint`; -1 when there is none
bank_index_by_mint(pool, mint) ==
    LET hit == {i \in DOMAIN pool : pool[i].some /\ pool[i].mint_pk = mint}
    IN  IF hit = {} THEN -1 ELSE SetMin(hit)

find_by_mint_or_create(mint, pool, balances) ==
    LET bank_index == bank_index_by_mint(pool, mint)
    IN  IF bank_index < 0
        THEN [ret |-> "BankNotFound", balances |-> balances, index |-> 0]
        ELSE find_balance_or_create(balances, bank_index)

\* a deposit that leaves the bank's aggregate totals alone
account_deposit_skipping_bank(balance, bank, amount) ==
    LET deposit_shares_delta == get_deposit_shares(bank, amount)
    IN  IF ~deposit_shares_delta.ok THEN Out("MathError", balance, bank) ELSE
    LET b1 == Balance_change_deposit_shares(balance, deposit_shares_delta.v)
    IN  IF ~b1.ok THEN Out("MathError", balance, bank)
        ELSE Out("Ok", b1.obj, bank)

\* a deposit that repays nothing: the whole amount becomes deposit shares
account_deposit_ignoring_debt(balance, bank, amount) ==
    LET deposit_shares_delta == get_deposit_shares(bank, amount)
    IN  IF ~deposit_shares_delta.ok THEN Out("MathError", balance, bank) ELSE
    LET b1 == Balance_change_deposit_shares(balance, deposit_shares_delta.v)
    IN  IF ~b1.ok THEN Out("MathError", balance, bank) ELSE
    LET k1 == Bank_change_deposit_shares(bank, deposit_shares_delta.v)
    IN  IF ~k1.ok THEN Out("MathError", b1.obj, bank)
        ELSE Out("Ok", b1.obj, k1.obj)

account_deposit(balance, bank, amount) ==
    LET liability_value == get_liability_amount(bank, balance.liability_shares)
    IN  IF ~liability_value.ok THEN Out("MathError", balance, bank) ELSE
    LET diff == checked_sub(amount, liability_value.v)
    IN  IF ~diff.ok THEN Out("MathError", balance, bank) ELSE
    LET deposit_value_delta == Max(diff.v, ZERO)
        liability_replay_value_delta == Min(liability_value.v, amount)
        deposit_shares_delta == get_deposit_shares(bank, deposit_value_delta)
    IN  IF ~deposit_shares_delta.ok THEN Out("MathError", balance, bank) ELSE
    LET b1 == Balance_change_deposit_shares(balance, deposit_shares_delta.v)
    IN  IF ~b1.ok THEN Out("MathError", balance, bank) ELSE
    LET k1 == Bank_change_deposit_shares(bank, deposit_shares_delta.v)
    IN  IF ~k1.ok THEN Out("MathError", b1.obj, bank) ELSE
    LET liability_shares_delta == get_liability_shares(k1.obj, liability_replay_value_delta)
    IN  IF ~liability_shares_delta.ok THEN Out("MathError", b1.obj, k1.obj) ELSE
    LET b2 == Balance_change_liability_shares(b1.obj, Neg(liability_shares_delta.v))
    IN  IF ~b2.ok THEN Out("MathError", b1.obj, k1.obj) ELSE
    LET k2 == Bank_change_liability_shares(k1.obj, Neg(liability_shares_delta.v))
    IN  IF ~k2.ok THEN Out("MathError", b2.obj, k1.obj)
        ELSE Out("Ok", b2.obj, k2.obj)

account_credit_asset(balance, bank, amount, allow_borrow) ==
    LET deposit_value == get_deposit_amount(bank, balance.deposit_shares)
    IN  IF ~deposit_value.ok THEN Out("MathError", balance, bank) ELSE
    LET diff == checked_sub(amount, deposit_value.v)
    IN  IF ~diff.ok THEN Out("MathError", balance, bank) ELSE
    LET deposit_remove_value_delta == Min(deposit_value.v, amount)
        liability_value_delta == Max(diff.v, ZERO)
    IN  IF ~(allow_borrow \/ liability_value_delta = ZERO)
        THEN Out("BorrowingNotAllowed", balance, bank) ELSE
    LET deposit_shares_delta == get_deposit_shares(bank, deposit_remove_value_delta)
    IN  IF ~deposit_shares_delta.ok THEN Out("MathError", balance, bank) ELSE
    LET b1 == Balance_change_deposit_shares(balance, Neg(deposit_shares_delta.v))
    IN  IF ~b1.ok THEN Out("MathError", balance, bank) ELSE
    LET k1 == Bank_change_deposit_shares(bank, Neg(deposit_shares_delta.v))
    IN  IF ~k1.ok THEN Out("MathError", b1.obj, bank) ELSE
    LET liability_shares_delta == get_liability_shares(k1.obj, liability_value_delta)
    IN  IF ~liability_shares_delta.ok THEN Out("MathError", b1.obj, k1.obj) ELSE
    LET b2 == Balance_change_liability_shares(b1.obj, liability_shares_delta.v)
    IN  IF ~b2.ok THEN Out("MathError", b1.obj, k1.obj) ELSE
    LET k2 == Bank_change_liability_shares(k1.obj, liability_shares_delta.v)
    IN  IF ~k2.ok THEN Out("MathError", b2.obj, k1.obj)
        ELSE Out("Ok", b2.obj, k2.obj)

\* a borrow that draws nothing from the deposit: the whole amount becomes debt
account_borrow_undrawn(balance, bank, amount) ==
    LET out == account_credit_asset([balance EXCEPT !.deposit_shares = ZERO], bank, amount, TRUE)
    IN  [out EXCEPT !.balance.deposit_shares = balance.deposit_shares]

\* a borrow that passes allow_borrow = false
account_borrow_refusing(balance, bank, amount) ==
    account_credit_asset(balance, bank, amount, FALSE)

account_borrow(balance, bank, amount) == account_credit_asset(balance, bank, amount, TRUE)

\* a withdrawal that passes allow_borrow = true
account_withdraw_borrowing(balance, bank, amount) ==
    account_credit_asset(balance, bank, amount, TRUE)

account_withdraw(balance, bank, amount) == account_credit_asset(balance, bank, amount, FALSE)

----------------------------------------------------------------------------
(* Price normalisation, asset valuation and the RiskEngine *)

\* a fallible value: the result ("Ok", "MathError", "Panic", ...) and the value
Val(ret, v) == [ret |-> ret, v |-> v]

\* EXP_10_I80F48[i], for an index inside the table
EXP_10_I80F48(i) == (10 ^ i) * ONE

pyth_price_to_i80f48(pyth_price, pyth_expo) ==
    LET expo_delta == EXPONENT - pyth_expo
    IN  IF Abs(expo_delta) >= EXP_10_LEN THEN Val("Panic", 0) ELSE
    LET expo_scale == EXP_10_I80F48(Abs(expo_delta))
        price == pyth_price * ONE
        scaled == IF expo_delta < 0 THEN checked_div(price, expo_scale)
                  ELSE checked_mul(price, expo_scale)
    IN  IF ~InRange(price) THEN Val("Panic", 0)
        ELSE IF ~scaled.ok THEN Val("MathError", 0)
        ELSE Val("Ok", scaled.v)

\* weight: Some(w) or NoneV
calc_asset_value(asset_quantity, pyth_price, pyth_expo, weight) ==
    LET price == pyth_price_to_i80f48(pyth_price, pyth_expo)
    IN  IF price.ret # "Ok" THEN price ELSE
        IF Abs(pyth_expo) >= EXP_10_LEN THEN Val("Panic", 0) ELSE
    LET scaling_factor == EXP_10_I80F48(Abs(pyth_expo))
        weighted_asset_qt == IF weight.ok THEN checked_mul(asset_quantity, weight.v)
                             ELSE Some(asset_quantity)
    IN  IF ~weighted_asset_qt.ok THEN Val("Panic", 0) ELSE
    LET product == checked_mul(weighted_asset_qt.v, price.v)
    IN  IF ~product.ok THEN Val("MathError", 0) ELSE
    LET asset_value == checked_div(product.v, scaling_factor)
    IN  IF ~asset_value.ok THEN Val("MathError", 0)
        ELSE Val("Ok", asset_value.v)

\* the inverse without the scaling factor: asset_value / price
calc_asset_quantity_unscaled(asset_value, pyth_price, pyth_expo) ==
    LET price == pyth_price_to_i80f48(pyth_price, pyth_expo)
    IN  IF price.ret # "Ok" THEN price ELSE
    LET asset_qt == checked_div(asset_value, price.v)
    IN  IF ~asset_qt.ok THEN Val("MathError", 0)
        ELSE Val("Ok", asset_qt.v)

calc_asset_quantity(asset_value, pyth_price, pyth_expo) ==
    LET price == pyth_price_to_i80f48(pyth_price, pyth_expo)
    IN  IF price.ret # "Ok" THEN price ELSE
        IF Abs(pyth_expo) >= EXP_10_LEN THEN Val("Panic", 0) ELSE
    LET scaling_factor == EXP_10_I80F48(Abs(pyth_expo))
        product == checked_mul(asset_value, scaling_factor)
    IN  IF ~product.ok THEN Val("MathError", 0) ELSE
    LET asset_qt == checked_div(product.v, price.v)
    IN  IF ~asset_qt.ok THEN Val("MathError", 0)
        ELSE Val("Ok", asset_qt.v)

\* a fallible pair (weighted assets, weighted liabilities)
Pair(ret, assets, liabilities) ==
    [ret |-> ret, assets |-> assets, liabilities |-> liabilities]

calc_weighted_assets_and_liabilities_values(bank, balance, weight_type) ==
    LET deposits_qt == get_deposit_amount(bank, balance.deposit_shares)
    IN  IF ~deposits_qt.ok THEN Pair("MathError", 0, 0) ELSE
    LET liabilities_qt == get_deposit_amount(bank, balance.liability_shares)
    IN  IF ~liabilities_qt.ok THEN Pair("MathError", 0, 0) ELSE
    LET weights == get_weights(bank, weight_type)
        assets == calc_asset_value(deposits_qt.v, bank.price, bank.expo, Some(weights[1]))
    IN  IF assets.ret # "Ok" THEN Pair(assets.ret, 0, 0) ELSE
    LET liabilities ==
            calc_asset_value(liabilities_qt.v, bank.price, bank.expo, Some(weights[2]))
    IN  IF liabilities.ret # "Ok" THEN Pair(liabilities.ret, 0, 0)
        ELSE Pair("Ok", assets.v, liabilities.v)

\* BankAccountWithPriceFeed::load: every active balance is joined with its
\* bank and the bank's price feed among the supplied oracle accounts
RECURSIVE load_from(_, _, _, _)
load_from(pool, balances, oracle_ais, i) ==
    IF i \notin Slots THEN "Ok"
    ELSE IF ~balances[i].active THEN load_from(pool, balances, oracle_ais, i + 1)
    ELSE IF ~bank_resolves(pool, balances[i].bank_index) THEN "Panic"
    ELSE IF balances[i].bank_index \notin oracle_ais THEN "PriceFeedNotFound"
    ELSE load_from(pool, balances, oracle_ais, i + 1)

\* the try_fold of check_account_health over the balances from slot i on
RECURSIVE fold_from(_, _, _, _, _, _)
fold_from(pool, balances, weight_type, i, ta, tl) ==
    IF i \notin Slots THEN Pair("Ok", ta, tl)
    ELSE IF ~balances[i].active
    THEN fold_from(pool, balances, weight_type, i + 1, ta, tl)
    ELSE
    LET res == calc_weighted_assets_and_liabilities_values(
                   pool[balances[i].bank_index], balances[i], weight_type)
    IN  IF res.ret # "Ok" THEN res ELSE
    LET total_assets_sum == checked_add(ta, res.assets)
        total_liabilities_sum == checked_add(tl, res.liabilities)
    IN  IF ~total_assets_sum.ok \/ ~total_liabilities_sum.ok THEN Pair("MathError", 0, 0)
        ELSE fold_from(pool, balances, weight_type, i + 1,
                       total_assets_sum.v, total_liabilities_sum.v)

\* RiskEngine::new followed by check_account_health(requirement_type)
check_account_health(pool, balances, oracle_ais, requirement_type) ==
    LET loaded == load_from(pool, balances, oracle_ais, 0)
    IN  IF loaded # "Ok" THEN loaded ELSE
    LET totals == fold_from(pool, balances, requirement_type, 0, ZERO, ZERO)
    IN  IF totals.ret # "Ok" THEN totals.ret
        ELSE IF totals.assets > totals.liabilities THEN "Ok"
        ELSE "BadAccountHealth"

----------------------------------------------------------------------------
(* The state machine *)

\* the amount of the I80F48 type's largest value, and one whole unit
HUGE == I80F48_MAX

Amounts == {ONE, HUGE}

WeightTypes == {"Initial", "Maintenance"}

\* (deposit share value, liability share value): of a new bank, of a bank
\* after interest has accrued, and of a bank whose borrowers have paid more
\* interest than its depositors have earned
FreshRates == <<ONE, ONE>>

AccruedRates == <<(3 * ONE) \div 2, 2 * ONE>>

MixedRates == <<ONE, (3 * ONE) \div 2>>

MintOf(i) == 100 + i

MakeBank(i, rates, price) ==
    [some |-> TRUE, mint_pk |-> MintOf(i),
     deposit_share_value |-> rates[1], liability_share_value |-> rates[2],
     total_deposit_shares |-> ZERO, total_liability_shares |-> ZERO,
     price |-> price, expo |-> 3,
     init_weights |-> <<ONE \div 2, (3 * ONE) \div 2>>,
     maint_weights |-> <<ONE, ONE>>]

\* a pool of two banks and one vacant entry
SmallPool ==
    [i \in 0 .. 2 |->
        IF i = 0 THEN MakeBank(0, FreshRates, 1)
        ELSE IF i = 1 THEN MakeBank(1, MixedRates, 2)
        ELSE NoBank]

\* a pool of one bank and one vacant entry
PairPool == [i \in 0 .. 1 |-> IF i = 0 THEN MakeBank(0, FreshRates, 1) ELSE NoBank]

\* a pool with more banks than an account has slots, and one vacant entry
FullPool ==
    [i \in 0 .. (MAX_LENDING_ACCOUNT_BALANCES + 2) |->
        IF i < MAX_LENDING_ACCOUNT_BALANCES + 2 THEN MakeBank(i, FreshRates, 1)
        ELSE NoBank]

\* the account after find_or_create(0), ..., find_or_create(n - 1)
PrefilledAccount(n) == [i \in Slots |-> IF i < n THEN NewBalance(i) ELSE NoBalance]

Res(op, ret, account, arg, amount) ==
    [op |-> op, ret |-> ret, account |-> account, arg |-> arg, amount |-> amount]

Init ==
    /\ banks = SmallPool
    /\ lending_accounts = [a \in {"a1"} |-> EmptyLendingAccount]
    /\ wrapper = NoWrapper
    /\ result = Res("init", "Ok", "", 0, 0)

InitPair ==
    /\ banks = PairPool
    /\ lending_accounts = [a \in {"a1", "a2"} |-> EmptyLendingAccount]
    /\ wrapper = NoWrapper
    /\ result = Res("init", "Ok", "", 0, 0)

InitFull ==
    /\ banks = FullPool
    /\ lending_accounts = [a \in {"a1"} |-> PrefilledAccount(Prefilled)]
    /\ wrapper = NoWrapper
    /\ result = Res("init", "Ok", "", 0, 0)

Bind(a, bank_index, r) ==
    IF r.ret = "Ok"
    THEN [some |-> TRUE, account |-> a, index |-> r.index, bank_index |-> bank_index]
    ELSE NoWrapper

FindOrCreate(a, bank_index) ==
    LET r == find_or_create(bank_index, banks, lending_accounts[a])
    IN  /\ lending_accounts' = [lending_accounts EXCEPT ![a] = r.balances]
        /\ wrapper' = Bind(a, bank_index, r)
        /\ result' = Res("find_or_create", r.ret, a, bank_index, 0)
        /\ UNCHANGED banks

FindByMintOrCreate(a, mint) ==
    LET r == find_by_mint_or_create(mint, banks, lending_accounts[a])
    IN  /\ lending_accounts' = [lending_accounts EXCEPT ![a] = r.balances]
        /\ wrapper' = Bind(a, bank_index_by_mint(banks, mint), r)
        /\ result' = Res("find_by_mint_or_create", r.ret, a, mint, 0)
        /\ UNCHANGED banks

\* the Balance and the Bank the wrapper holds
WBalance == lending_accounts[wrapper.account][wrapper.index]

WBank == banks[wrapper.bank_index]

Within(x) == -(MaxShares * ONE) <= x /\ x <= MaxShares * ONE

\* the amounts fed to the wrapper in the current state
Feed(amount) ==
    \/ amount = HUGE
    \/ /\ Within(WBalance.deposit_shares) /\ Within(WBalance.liability_shares)
       /\ Within(WBank.total_deposit_shares) /\ Within(WBank.total_liability_shares)

\* the call's writes through the wrapper's two references
Apply(op, out, amount) ==
    /\ lending_accounts' =
          [lending_accounts EXCEPT ![wrapper.account][wrapper.index] = out.balance]
    /\ banks' = [banks EXCEPT ![wrapper.bank_index] = out.bank]
    /\ result' = Res(op, out.ret, wrapper.account, wrapper.bank_index, amount)
    /\ UNCHANGED wrapper

AccountDeposit(amount) ==
    /\ wrapper.some /\ Feed(amount)
    /\ Apply("account_deposit", account_deposit(WBalance, WBank, amount), amount)

AccountWithdraw(amount) ==
    /\ wrapper.some /\ Feed(amount)
    /\ Apply("account_withdraw", account_withdraw(WBalance, WBank, amount), amount)

AccountBorrow(amount) ==
    /\ wrapper.some /\ Feed(amount)
    /\ Apply("account_borrow", account_borrow(WBalance, WBank, amount), amount)

CheckAccountHealth(a, oracle_ais, requirement_type) ==
    /\ result' = Res("check_account_health",
                     check_account_health(banks, lending_accounts[a], oracle_ais,
                                          requirement_type),
                     a, IF requirement_type = "Initial" THEN 0 ELSE 1, 0)
    /\ wrapper' = NoWrapper
    /\ UNCHANGED <<banks, lending_accounts>>

\* the bank's interest accrual raises its share values
AccrueInterest(i) ==
    /\ banks[i].some
    /\ <<banks[i].deposit_share_value, banks[i].liability_share_value>> = FreshRates
    /\ banks' = [banks EXCEPT ![i].deposit_share_value = AccruedRates[1],
                              ![i].liability_share_value = AccruedRates[2]]
    /\ wrapper' = NoWrapper
    /\ result' = Res("accrue_interest", "Ok", "", i, 0)
    /\ UNCHANGED lending_accounts

Accounts == DOMAIN lending_accounts

PoolIndexes == DOMAIN banks \cup {Cardinality(DOMAIN banks)}

Mints == {MintOf(i) : i \in PoolIndexes}

OracleSets == {{i \in DOMAIN banks : banks[i].some}, {0}}

Next ==
    \/ \E a \in Accounts, i \in PoolIndexes : FindOrCreate(a, i)
    \/ \E a \in Accounts, m \in Mints : FindByMintOrCreate(a, m)
    \/ \E amount \in Amounts : AccountDeposit(amount)
    \/ \E amount \in Amounts : AccountWithdraw(amount)
    \/ \E amount \in Amounts : AccountBorrow(amount)
    \/ \E i \in DOMAIN banks : AccrueInterest(i)

Spec == Init /\ [][Next]_vars

\* two accounts on one bank, moving the largest amount
NextPair ==
    \/ \E a \in Accounts, i \in PoolIndexes : FindOrCreate(a, i)
    \/ AccountDeposit(HUGE)
    \/ AccountWithdraw(HUGE)
    \/ AccountBorrow(HUGE)
    \/ \E i \in DOMAIN banks : AccrueInterest(i)

SpecPair == InitPair /\ [][NextPair]_vars

\* the balance operations with whole-unit amounts, followed by health checks
NextRisk ==
    \/ \E a \in Accounts, i \in DOMAIN banks : FindOrCreate(a, i)
    \/ AccountDeposit(ONE)
    \/ AccountWithdraw(ONE)
    \/ AccountBorrow(ONE)
    \/ \E a \in Accounts, o \in OracleSets, t \in WeightTypes : CheckAccountHealth(a, o, t)
    \/ \E i \in DOMAIN banks : AccrueInterest(i)

SpecRisk == Init /\ [][NextRisk]_vars

\* the calls of two accounts on one bank that succeed
AccountDepositOk(amount) == AccountDeposit(amount) /\ result'.ret = "Ok"

AccountWithdrawOk(amount) == AccountWithdraw(amount) /\ result'.ret = "Ok"

AccountBorrowOk(amount) == AccountBorrow(amount) /\ result'.ret = "Ok"

NextOk ==
    \/ \E a \in Accounts, i \in PoolIndexes : FindOrCreate(a, i)
    \/ \E amount \in Amounts : AccountDepositOk(amount)
    \/ \E amount \in Amounts : AccountWithdrawOk(amount)
    \/ \E amount \in Amounts : AccountBorrowOk(amount)
    \/ \E i \in DOMAIN banks : AccrueInterest(i)

SpecOk == InitPair /\ [][NextOk]_vars

\* every sign of amount the primitives accept
SignedAmounts == {-ONE, ZERO, ONE}

NextSigned ==
    \/ \E a \in Accounts, i \in DOMAIN banks : FindOrCreate(a, i)
    \/ \E amount \in SignedAmounts : AccountDeposit(amount)
    \/ \E amount \in SignedAmounts : AccountWithdraw(amount)
    \/ \E amount \in SignedAmounts : AccountBorrow(amount)
    \/ \E i \in DOMAIN banks : AccrueInterest(i)

SpecSigned == Init /\ [][NextSigned]_vars

\* a pool of two banks quoted by their oracles with a negative exponent
\* (mantissa 2 and mantissa 1 at exponent -1: the prices 0.2 and 0.1), and
\* one vacant entry
OraclePool ==
    [i \in 0 .. 2 |->
        IF i = 0 THEN [MakeBank(0, FreshRates, 2) EXCEPT !.expo = -1]
        ELSE IF i = 1 THEN [MakeBank(1, MixedRates, 1) EXCEPT !.expo = -1]
        ELSE NoBank]

InitOracle ==
    /\ banks = OraclePool
    /\ lending_accounts = [a \in {"a1"} |-> EmptyLendingAccount]
    /\ wrapper = NoWrapper
    /\ result = Res("init", "Ok", "", 0, 0)

\* the balance operations and health checks on the bank of OraclePool
SpecOracle == InitOracle /\ [][NextRisk]_vars

\* the outcome of a call of the price and valuation functions, with its inputs
PriceRes(op, ret, quantity, price, expo, weight, v) ==
    [op |-> op, ret |-> ret, quantity |-> quantity, price |-> price, expo |-> expo,
     weight |-> weight, v |-> v]

\* asset quantities (raw bits)
Quantities == (0 .. MaxQuantity) \cup {HUGE}

\* oracle price mantissas
Mantissas == (0 .. MaxMantissa) \cup {10, 100}

\* oracle price exponents: inside the power-of-ten table for both lookups,
\* and one on each side whose rescaling falls outside the table
Expos == {-9, -2, -1, 0, 1, 2, 3, 6, 7, 8, 21}

\* weight: Option<I80F48>
Weights == {NoneV, Some(ONE \div 2), Some(ONE), Some(HUGE)}

\* the inputs of one run of the price and valuation functions
InitPrice ==
    /\ banks = PairPool
    /\ lending_accounts = [a \in {"a1"} |-> EmptyLendingAccount]
    /\ wrapper = NoWrapper
    /\ \E q \in Quantities, m \in Mantissas, e \in Expos, w \in Weights :
           result = PriceRes("input", "Ok", q, m, e, w, 0)

PythPriceToI80f48 ==
    /\ result.op = "input"
    /\ LET r == pyth_price_to_i80f48(result.price, result.expo)
       IN  result' = PriceRes("pyth_price_to_i80f48", r.ret, result.quantity, result.price,
                              result.expo, result.weight, r.v)
    /\ UNCHANGED <<banks, lending_accounts, wrapper>>

CalcAssetValue ==
    /\ result.op = "input"
    /\ LET r == calc_asset_value(result.quantity, result.price, result.expo, result.weight)
       IN  result' = PriceRes("calc_asset_value", r.ret, result.quantity, result.price,
                              result.expo, result.weight, r.v)
    /\ UNCHANGED <<banks, lending_accounts, wrapper>>

\* the unweighted value just computed is converted back at the same price
CalcAssetQuantity ==
    /\ result.op = "calc_asset_value" /\ result.ret = "Ok" /\ ~result.weight.ok
    /\ LET r == calc_asset_quantity(result.v, result.price, result.expo)
       IN  result' = PriceRes("calc_asset_quantity", r.ret, result.quantity, result.price,
                              result.expo, NoneV, r.v)
    /\ UNCHANGED <<banks, lending_accounts, wrapper>>

NextPrice ==
    \/ PythPriceToI80f48
    \/ CalcAssetValue
    \/ CalcAssetQuantity

SpecPrice == InitPrice /\ [][NextPrice]_vars

NextFull ==
    \/ \E a \in Accounts, i \in PoolIndexes : FindOrCreate(a, i)
    \/ \E a \in Accounts, m \in Mints : FindByMintOrCreate(a, m)

SpecFull == InitFull /\ [][NextFull]_vars

----------------------------------------------------------------------------
(* Properties *)

ActiveBalances ==
    {lending_accounts[p[1]][p[2]] :
        p \in {q \in Accounts \X Slots : lending_accounts[q[1]][q[2]].active}}

WrapperOps == {"account_deposit", "account_withdraw", "account_borrow"}

\* C1: in every reachable state every active Balance has deposit_shares >= 0
\* and liability_shares >= 0, both inside the range of the type; an overflowing
\* step returns an error and stores no negative or wrapped value.
C1_SharesNonNegative ==
    \A b \in ActiveBalances :
        /\ b.deposit_shares >= 0 /\ b.deposit_shares <= I80F48_MAX
        /\ b.liability_shares >= 0 /\ b.liability_shares <= I80F48_MAX

\* a call on the wrapper has just ended in the arithmetic error, on a Balance
\* that holds shares
C1_Witness ==
    /\ result.op \in WrapperOps /\ result.ret = "MathError"
    /\ wrapper.some
    /\ WBalance.deposit_shares + WBalance.liability_shares > 0
    /\ C1_SharesNonNegative

\* the deposit value of the wrapper's Balance, by the bank's conversion
WDepositValue == get_deposit_amount(WBank, WBalance.deposit_shares)

\* the liability value of the wrapper's Balance, by the bank's conversion
WLiabilityValue == get_liability_amount(WBank, WBalance.liability_shares)

\* C3: account_withdraw(amount) on a Balance whose deposit value is less than
\* amount fails with BorrowingNotAllowed and leaves the account's balances and
\* the bank's aggregate share totals as they were.
C3_WithdrawShortfallRejected ==
    [][ (/\ wrapper.some
         /\ result'.op = "account_withdraw"
         /\ WDepositValue.ok /\ WDepositValue.v < result'.amount)
        => (/\ result'.ret = "BorrowingNotAllowed"
            /\ lending_accounts' = lending_accounts
            /\ banks' = banks) ]_vars

\* a withdrawal of more than the deposit value of a Balance that holds
\* deposit shares has just been rejected
C3_Witness ==
    /\ result.op = "account_withdraw" /\ result.ret = "BorrowingNotAllowed"
    /\ wrapper.some
    /\ WBalance.deposit_shares > 0
    /\ WDepositValue.ok /\ WDepositValue.v < result.amount

\* the wrapper's Balance and Bank after the step
WBalanceNext == lending_accounts'[wrapper.account][wrapper.index]

WBankNext == banks'[wrapper.bank_index]

\* the step changes the share counters of the wrapper's Balance and of its
\* Bank's aggregates by dd (deposit shares) and dl (liability shares), and
\* nothing else
SharesMove(dd, dl) ==
    /\ lending_accounts' =
          [lending_accounts EXCEPT
              ![wrapper.account][wrapper.index].deposit_shares = @ + dd,
              ![wrapper.account][wrapper.index].liability_shares = @ + dl]
    /\ banks' =
          [banks EXCEPT
              ![wrapper.bank_index].total_deposit_shares = @ + dd,
              ![wrapper.bank_index].total_liability_shares = @ + dl]

\* a borrow of more than the deposit value D of the wrapper's Balance
BorrowBeyondDeposit ==
    /\ wrapper.some
    /\ result'.op = "account_borrow"
    /\ WDepositValue.ok /\ WDepositValue.v < result'.amount

\* the deltas C4 names: depositShares(D) and liabilityShares(amount - D)
C4_DepositSharesOut == get_deposit_shares(WBank, WDepositValue.v).v

C4_LiabilitySharesIn == get_liability_shares(WBank, result'.amount - WDepositValue.v).v

\* C4 as stated: account_borrow(amount) with deposit value D < amount succeeds,
\* takes depositShares(D) off the deposit shares and adds
\* liabilityShares(amount - D) to the liability shares, on the Balance and on
\* the bank's aggregates alike.
C4_BorrowAlwaysSucceeds ==
    [][ BorrowBeyondDeposit
        => (/\ result'.ret = "Ok"
            /\ SharesMove(-C4_DepositSharesOut, C4_LiabilitySharesIn)) ]_vars

\* C4 amended: the borrow is never refused as BorrowingNotAllowed; it succeeds
\* with exactly those deltas unless one of the checked counter updates
\* overflows, and then it ends in MathError.
C4_BorrowDrawsDepositThenDebt ==
    [][ BorrowBeyondDeposit
        => \/ /\ result'.ret = "Ok"
              /\ SharesMove(-C4_DepositSharesOut, C4_LiabilitySharesIn)
           \/ /\ result'.ret = "MathError"
              /\ \/ ~InRange(WBalance.liability_shares + C4_LiabilitySharesIn)
                 \/ ~InRange(WBank.total_liability_shares + C4_LiabilitySharesIn)
                 \/ ~InRange(WBank.total_deposit_shares - C4_DepositSharesOut) ]_vars

\* a borrow has just turned a deposit into a debt: the Balance, which held
\* less than the amount, now owes liability shares
C4_Witness ==
    /\ result.op = "account_borrow" /\ result.ret = "Ok"
    /\ wrapper.some
    /\ WBalance.liability_shares > 0
    /\ WBalance.liability_shares < get_liability_shares(WBank, result.amount).v

\* a withdrawal or a borrow of at most the deposit value of the Balance
CreditWithinDeposit ==
    /\ wrapper.some
    /\ result'.op \in {"account_withdraw", "account_borrow"}
    /\ result'.amount > 0
    /\ WDepositValue.ok /\ WDepositValue.v >= result'.amount

\* C5: when the deposit value is >= amount, account_borrow and account_withdraw
\* both succeed and end in the same state: deposit shares fall by
\* depositShares(amount) on the Balance and on the bank, liability shares are
\* unchanged.
C5_BorrowEqualsWithdrawWithinDeposit ==
    [][ CreditWithinDeposit
        => (/\ result'.ret = "Ok"
            /\ SharesMove(-get_deposit_shares(WBank, result'.amount).v, 0)
            /\ account_borrow(WBalance, WBank, result'.amount)
                  = account_withdraw(WBalance, WBank, result'.amount)) ]_vars

\* a borrow has just succeeded and left no debt, at share values of one (where
\* any shortfall of the deposit would have become liability shares)
C5_Witness ==
    /\ result.op = "account_borrow" /\ result.ret = "Ok"
    /\ wrapper.some
    /\ result.amount > 0
    /\ WBalance.liability_shares = 0
    /\ <<WBank.deposit_share_value, WBank.liability_share_value>> = FreshRates

\* C6: a successful account_deposit(amount), amount > 0, on a Balance with no
\* liability shares adds exactly depositShares(amount) to the deposit shares of
\* the Balance and of the bank, and changes no liability shares.
C6_DepositWithoutDebt ==
    [][ (/\ wrapper.some
         /\ result'.op = "account_deposit" /\ result'.ret = "Ok"
         /\ result'.amount > 0
         /\ WBalance.liability_shares = 0)
        => SharesMove(get_deposit_shares(WBank, result'.amount).v, 0) ]_vars

\* a deposit has just succeeded on a Balance that owes nothing and now holds
\* more deposit shares than the deposit alone bought
C6_Witness ==
    /\ result.op = "account_deposit" /\ result.ret = "Ok"
    /\ wrapper.some
    /\ WBalance.liability_shares = 0
    /\ WBalance.deposit_shares > get_deposit_shares(WBank, result.amount).v

\* a deposit of less than the liability value of the wrapper's Balance
DepositBelowDebt ==
    /\ wrapper.some
    /\ result'.op = "account_deposit"
    /\ WLiabilityValue.ok
    /\ 0 < result'.amount /\ result'.amount < WLiabilityValue.v

\* C7 as stated: account_deposit(amount) with 0 < amount < liability value
\* leaves the Balance with zero liability shares and the same deposit shares.
C7_PartialDepositClearsDebt ==
    [][ DepositBelowDebt
        => (/\ WBalanceNext.liability_shares = 0
            /\ WBalanceNext.deposit_shares = WBalance.deposit_shares) ]_vars

\* C7 amended: such a deposit succeeds, repays only its own worth - the
\* liability shares of the Balance and of the bank fall by
\* liabilityShares(amount) and the Balance still owes shares - and adds no
\* deposit shares.
C7_PartialDepositRepaysAmount ==
    [][ DepositBelowDebt
        => (/\ result'.ret = "Ok"
            /\ SharesMove(0, -get_liability_shares(WBank, result'.amount).v)
            /\ WBalanceNext.liability_shares > 0) ]_vars

\* a deposit smaller than the debt has just been made: the debt that is left
\* is still worth at least the amount deposited
C7_Witness ==
    /\ result.op = "account_deposit" /\ result.ret = "Ok"
    /\ wrapper.some
    /\ WBalance.liability_shares > 0
    /\ WLiabilityValue.ok /\ WLiabilityValue.v >= result.amount

\* the bank a lookup that has just been made resolves to; -1 when none
LookedUpBank ==
    IF result'.op = "find_or_create"
    THEN IF bank_resolves(banks, result'.arg) THEN result'.arg ELSE -1
    ELSE bank_index_by_mint(banks, result'.arg)

LookupStep == result'.op \in {"find_or_create", "find_by_mint_or_create"}

\* the slots of account a that hold a Balance of bank b
SlotsOf(a, b) == {i \in Slots : lending_accounts[a][i].active
                                /\ lending_accounts[a][i].bank_index = b}

UniquePerBank ==
    \A a \in Accounts : \A i, j \in Slots :
        (/\ lending_accounts[a][i].active /\ lending_accounts[a][j].active
         /\ lending_accounts[a][i].bank_index = lending_accounts[a][j].bank_index)
        => i = j

\* C8: a lending account holds at most one active Balance per bank, and a
\* lookup for a bank that already has an active Balance succeeds, binds that
\* Balance and occupies no other slot.
C8_OneBalancePerBank ==
    /\ []UniquePerBank
    /\ [][ (LookupStep /\ LookedUpBank >= 0
            /\ SlotsOf(result'.account, LookedUpBank) # {})
           => (/\ result'.ret = "Ok"
               /\ lending_accounts' = lending_accounts
               /\ wrapper'.some
               /\ wrapper'.account = result'.account
               /\ wrapper'.bank_index = LookedUpBank
               /\ SlotsOf(result'.account, LookedUpBank) = {wrapper'.index}) ]_vars

\* a lookup has just bound a Balance that already holds shares, in an account
\* with Balances for two banks
C8_Witness ==
    /\ result.op \in {"find_or_create", "find_by_mint_or_create"} /\ result.ret = "Ok"
    /\ wrapper.some
    /\ WBalance.deposit_shares + WBalance.liability_shares > 0
    /\ Cardinality(ActiveSlots(lending_accounts[wrapper.account])) = 2

\* the empty slot with the lowest index
LowestEmpty(a) ==
    CHOOSE i \in Slots :
        /\ ~lending_accounts[a][i].active
        /\ \A j \in Slots : j < i => lending_accounts[a][j].active

\* C9: find_or_create for a bank without an active Balance fails with
\* LendingAccountBalanceSlotsFull and changes no slot when all
\* MAX_LENDING_ACCOUNT_BALANCES slots are occupied; otherwise it puts a new
\* zero-share Balance for the bank into the lowest-indexed empty slot.
C9_FirstEmptySlotOrFull ==
    [][ (LookupStep /\ LookedUpBank >= 0
         /\ SlotsOf(result'.account, LookedUpBank) = {})
        => IF ActiveSlots(lending_accounts[result'.account]) = Slots
           THEN /\ result'.ret = "LendingAccountBalanceSlotsFull"
                /\ lending_accounts' = lending_accounts
                /\ ~wrapper'.some
           ELSE /\ result'.ret = "Ok"
                /\ lending_accounts' =
                      [lending_accounts EXCEPT
                          ![result'.account][LowestEmpty(result'.account)] =
                              [active |-> TRUE, bank_index |-> LookedUpBank,
                               deposit_shares |-> 0, liability_shares |-> 0]]
                /\ wrapper'.some
                /\ wrapper'.index = LowestEmpty(result'.account) ]_vars

\* find_or_create has just been refused on an account whose slots are all
\* occupied
C9_Witness ==
    /\ result.op = "find_or_create"
    /\ result.ret = "LendingAccountBalanceSlotsFull"
    /\ ActiveSlots(lending_accounts[result.account]) = Slots

\* C10: when find_or_create, account_deposit, account_withdraw or
\* account_borrow ends in a fault, the balances of the account and the
\* aggregate share totals of the bank are what they were before the call.
C10_FaultLeavesStateUnchanged ==
    [][ (/\ result'.op \in WrapperOps \cup {"find_or_create", "find_by_mint_or_create"}
         /\ result'.ret # "Ok")
        => (lending_accounts' = lending_accounts /\ banks' = banks) ]_vars

\* the values of section 4.7 for one Balance: deposit shares converted with
\* the bank's deposit rate, liability shares with its liability rate, each
\* valued at the bank's price and the regime's weight
StatedValues(bank, balance, weight_type) ==
    LET deposits_qt == get_deposit_amount(bank, balance.deposit_shares)
        liabilities_qt == get_liability_amount(bank, balance.liability_shares)
        weights == get_weights(bank, weight_type)
        assets == calc_asset_value(deposits_qt.v, bank.price, bank.expo, Some(weights[1]))
        liabilities ==
            calc_asset_value(liabilities_qt.v, bank.price, bank.expo, Some(weights[2]))
    IN  IF deposits_qt.ok /\ liabilities_qt.ok /\ assets.ret = "Ok" /\ liabilities.ret = "Ok"
        THEN Pair("Ok", assets.v, liabilities.v)
        ELSE Pair("MathError", 0, 0)

RECURSIVE StatedTotals(_, _, _)
StatedTotals(balances, weight_type, i) ==
    IF i \notin Slots THEN Pair("Ok", 0, 0)
    ELSE IF ~balances[i].active THEN StatedTotals(balances, weight_type, i + 1)
    ELSE LET one == StatedValues(banks[balances[i].bank_index], balances[i], weight_type)
             rest == StatedTotals(balances, weight_type, i + 1)
         IN  IF one.ret = "Ok" /\ rest.ret = "Ok"
                /\ InRange(one.assets + rest.assets)
                /\ InRange(one.liabilities + rest.liabilities)
             THEN Pair("Ok", one.assets + rest.assets, one.liabilities + rest.liabilities)
             ELSE Pair("MathError", 0, 0)

CheckedRegime == IF result.arg = 0 THEN "Initial" ELSE "Maintenance"

\* C2: in each regime check_account_health succeeds exactly when the total
\* weighted asset value of the active balances is strictly greater than their
\* total weighted liability value, and fails with BadAccountHealth otherwise.
C2_HealthyIffAssetsExceedLiabilities ==
    LET totals == StatedTotals(lending_accounts[result.account], CheckedRegime, 0)
    IN  (/\ result.op = "check_account_health"
         /\ result.ret \in {"Ok", "BadAccountHealth"}
         /\ totals.ret = "Ok")
        => (result.ret = "Ok" <=> totals.assets > totals.liabilities)

----------------------------------------------------------------------------
(* Deposits that cover the debt *)

\* a successful deposit of at least the liability value L of the wrapper's
\* Balance
DepositCoversDebt ==
    /\ wrapper.some
    /\ result'.op = "account_deposit" /\ result'.ret = "Ok"
    /\ WLiabilityValue.ok
    /\ result'.amount > 0 /\ result'.amount >= WLiabilityValue.v

\* C15: a successful account_deposit(amount) with amount >= L leaves the
\* Balance with zero liability shares and with depositShares(amount - L) more
\* deposit shares, the bank's aggregates moving by the same deltas.
C15_DepositExtinguishesDebtFirst ==
    [][ DepositCoversDebt
        => SharesMove(get_deposit_shares(WBank, result'.amount - WLiabilityValue.v).v,
                      -WBalance.liability_shares) ]_vars

----------------------------------------------------------------------------
(* Life cycle of a slot *)

\* C16: a slot that holds a Balance holds, after every step, a Balance with
\* the same bank_index: no operation empties an occupied slot or binds it to
\* another bank, also when both share counters are back at zero.
C16_OccupiedSlotStaysOccupied ==
    [][ \A a \in Accounts, i \in Slots :
            lending_accounts[a][i].active
            => (/\ lending_accounts'[a][i].active
                /\ lending_accounts'[a][i].bank_index = lending_accounts[a][i].bank_index)
      ]_vars

\* a withdrawal has just brought a Balance back to zero shares on both
\* counters, in the second slot, and the slot is still occupied
C16_Witness ==
    /\ result.op = "account_withdraw" /\ result.ret = "Ok" /\ result.amount > 0
    /\ wrapper.some /\ wrapper.index = 1
    /\ WBalance.active
    /\ WBalance.deposit_shares = 0 /\ WBalance.liability_shares = 0

\* the occupied slots of every account are the first ones of its array
OccupiedPrefix ==
    \A a \in Accounts : \A i \in Slots :
        lending_accounts[a][i].active => \A j \in 0 .. (i - 1) : lending_accounts[a][j].active

\* the wrapper a successful lookup returned holds the Balance of the bank
\* the lookup resolved
WrapperBindsItsBank ==
    wrapper.some => (WBalance.active /\ WBalance.bank_index = wrapper.bank_index)

\* a deposit, withdrawal or borrow changes no Balance but that of its bank
OnlyTheBanksBalanceChanges ==
    result'.op \in WrapperOps =>
        \A a \in Accounts, i \in Slots :
            lending_accounts'[a][i] # lending_accounts[a][i]
            => (/\ a = result'.account
                /\ lending_accounts[a][i].active
                /\ lending_accounts[a][i].bank_index = result'.arg)

\* C17: in every reachable state the occupied slots form a prefix of the
\* array and the wrapper of a successful find_or_create or
\* find_by_mint_or_create holds a Balance whose bank_index is the resolved
\* bank's; a deposit, withdrawal or borrow through the wrapper changes only
\* that bank's Balance.
C17_WrapperBindsResolvedBank ==
    /\ [](OccupiedPrefix /\ WrapperBindsItsBank)
    /\ [][OnlyTheBanksBalanceChanges]_vars

\* a deposit has just been made through a wrapper whose Balance sits in a
\* slot numbered differently from its bank, beside another occupied slot
C17_Witness ==
    /\ result.op = "account_deposit" /\ result.ret = "Ok" /\ result.amount > 0
    /\ wrapper.some /\ wrapper.index # wrapper.bank_index
    /\ WBalance.bank_index = wrapper.bank_index
    /\ WBalance.deposit_shares > 0
    /\ Cardinality(ActiveSlots(lending_accounts[wrapper.account])) = 2

----------------------------------------------------------------------------
(* Share conservation *)

\* the (account, slot) pairs that hold a Balance of bank i
BalancesOf(i) ==
    {p \in Accounts \X Slots :
        lending_accounts[p[1]][p[2]].active /\ lending_accounts[p[1]][p[2]].bank_index = i}

RECURSIVE SumDepositShares(_)
SumDepositShares(S) ==
    IF S = {} THEN 0
    ELSE LET p == CHOOSE q \in S : TRUE
         IN  lending_accounts[p[1]][p[2]].deposit_shares + SumDepositShares(S \ {p})

RECURSIVE SumLiabilityShares(_)
SumLiabilityShares(S) ==
    IF S = {} THEN 0
    ELSE LET p == CHOOSE q \in S : TRUE
         IN  lending_accounts[p[1]][p[2]].liability_shares + SumLiabilityShares(S \ {p})

\* C18: after any sequence of successful deposits, withdrawals and borrows
\* by the accounts, each bank's aggregate deposit-share total is the sum of
\* the deposit shares of the Balances of that bank, and its aggregate
\* liability-share total the sum of their liability shares.
C18_SharesConserved ==
    \A i \in DOMAIN banks :
        banks[i].some =>
            /\ banks[i].total_deposit_shares = SumDepositShares(BalancesOf(i))
            /\ banks[i].total_liability_shares = SumLiabilityShares(BalancesOf(i))

\* both accounts hold shares of the bank: one has just deposited while the
\* other owes
C18_Witness ==
    /\ result.op = "account_deposit" /\ result.ret = "Ok"
    /\ wrapper.some /\ WBalance.deposit_shares > 0
    /\ WBank.total_deposit_shares > 0
    /\ WBank.total_liability_shares > 0
    /\ \E p \in BalancesOf(wrapper.bank_index) :
           /\ p[1] # wrapper.account
           /\ lending_accounts[p[1]][p[2]].liability_shares > 0

\* C19: after any sequence of successful deposits, withdrawals and borrows
\* with amount > 0, no Balance has deposit shares and liability shares at
\* the same time.
C19_NetCollateralOrNetDebt ==
    \A b \in ActiveBalances : ~(b.deposit_shares > 0 /\ b.liability_shares > 0)

----------------------------------------------------------------------------
(* Direction of the share movements *)

\* a successful deposit adds no liability shares and removes no deposit
\* shares; a successful withdrawal adds neither deposit nor liability shares
MovesTheRightWay ==
    /\ result'.op = "account_deposit"
          => (/\ WBalanceNext.liability_shares <= WBalance.liability_shares
              /\ WBalanceNext.deposit_shares >= WBalance.deposit_shares)
    /\ result'.op = "account_withdraw"
          => (/\ WBalanceNext.deposit_shares <= WBalance.deposit_shares
              /\ WBalanceNext.liability_shares <= WBalance.liability_shares)

\* C20 as stated: for every amount, zero and negative ones included, a
\* successful account_deposit never increases the liability shares and never
\* decreases the deposit shares of the Balance, and a successful
\* account_withdraw never increases its deposit shares or liability shares.
C20_AnyAmountMovesTheRightWay ==
    [][ (wrapper.some /\ result'.op \in WrapperOps /\ result'.ret = "Ok")
        => MovesTheRightWay ]_vars

\* C20 amended: the same for every amount >= 0.
C20_NonNegativeAmountMovesTheRightWay ==
    [][ (wrapper.some /\ result'.op \in WrapperOps /\ result'.ret = "Ok"
           /\ result'.amount >= 0)
        => MovesTheRightWay ]_vars

\* a withdrawal of zero has just succeeded on a Balance that holds deposit
\* shares
C20_Witness ==
    /\ result.op = "account_withdraw" /\ result.ret = "Ok" /\ result.amount = 0
    /\ wrapper.some /\ WBalance.deposit_shares > 0

----------------------------------------------------------------------------
(* Price normalisation and valuation *)

\* the unweighted value of result.quantity has been converted back without a
\* fault, at a price whose mantissa is positive
RoundTripDone ==
    /\ result.op = "calc_asset_quantity" /\ result.ret = "Ok"
    /\ result.price > 0 /\ result.quantity >= 0

\* C11 as stated: calc_asset_quantity(calc_asset_value(q, price, no weight),
\* price) returns q to within one unit of fixed-point precision.
C11_RoundTripReturnsQuantity ==
    RoundTripDone => Abs(result.quantity - result.v) <= 1

\* C11 amended: the round trip returns q' <= q with
\* (q - q') * price < scale + price + one unit, all in units of precision,
\* where price is the normalised price and scale = 10^|exponent|.
C11_RoundTripWithinScaleOverPrice ==
    RoundTripDone =>
        LET price == pyth_price_to_i80f48(result.price, result.expo).v
            scaling_factor == EXP_10_I80F48(Abs(result.expo))
        IN  /\ result.v <= result.quantity
            /\ (result.quantity - result.v) * price < scaling_factor + price + ONE

\* a positive quantity has come back unchanged from a round trip at a price
\* with a negative exponent
C11_Witness ==
    /\ RoundTripDone
    /\ result.quantity > 0 /\ result.v = result.quantity
    /\ result.expo < 0

\* the product quantity * weight of the valuation leaves the range of the type
WeightOverflows ==
    result.weight.ok /\ ~checked_mul(result.quantity, result.weight.v).ok

\* C12: every arithmetic failure of pyth_price_to_i80f48 and calc_asset_value
\* is returned as MathError: a rescaling |EXPONENT - expo| beyond the table,
\* a price exponent beyond the table, an overflow of quantity * weight; the
\* calls end in Ok or MathError and in nothing else.
C12_ArithmeticFailuresReturnMathError ==
    result.op \in {"pyth_price_to_i80f48", "calc_asset_value"} =>
        /\ result.ret \in {"Ok", "MathError"}
        /\ Abs(EXPONENT - result.expo) >= EXP_10_LEN => result.ret = "MathError"
        /\ (result.op = "calc_asset_value"
              /\ (Abs(result.expo) >= EXP_10_LEN \/ WeightOverflows))
           => result.ret = "MathError"

----------------------------------------------------------------------------
(* The risk engine's valuation of a balance *)

\* a health check has just been made of an account with a single Balance
SingleBalanceChecked ==
    /\ result.op = "check_account_health"
    /\ Cardinality(ActiveSlots(lending_accounts[result.account])) = 1

CheckedBalance ==
    lending_accounts[result.account][SetMin(ActiveSlots(lending_accounts[result.account]))]

CheckedBank == banks[CheckedBalance.bank_index]

\* C13: for an account with a single Balance on a bank quoted at
\* mantissa * 10^exponent (exponent < 0) with deposit weight 1.0, the weighted
\* asset value of the risk engine is the deposit amount of the Balance times
\* that price (to within the truncation of the division), and the health
\* check succeeds when the Balance has a deposit and no liability shares.
C13_AssetValueIsAmountTimesPrice ==
    LET deposits_qt == get_deposit_amount(CheckedBank, CheckedBalance.deposit_shares)
        engine == calc_weighted_assets_and_liabilities_values(
                      CheckedBank, CheckedBalance, CheckedRegime)
    IN  (/\ SingleBalanceChecked
         /\ CheckedBank.expo < 0
         /\ get_weights(CheckedBank, CheckedRegime)[1] = ONE
         /\ deposits_qt.ok /\ engine.ret = "Ok")
        => /\ Abs(engine.assets * (10 ^ (-CheckedBank.expo))
                    - deposits_qt.v * CheckedBank.price) < 10 ^ (-CheckedBank.expo)
           /\ (CheckedBalance.liability_shares = 0 /\ CheckedBalance.deposit_shares > 0)
                 => result.ret = "Ok"

\* C14: for every Balance the risk engine values, the weighted asset value is
\* valueOf(depositAmount(deposit_shares), price, deposit weight) and the
\* weighted liability value is valueOf(liabilityAmount(liability_shares),
\* price, liability weight), whatever the bank's two exchange rates.
C14_SharesValuedAtTheirOwnRate ==
    result.op = "check_account_health" =>
        \A i \in ActiveSlots(lending_accounts[result.account]) :
            LET balance == lending_accounts[result.account][i]
                bank == banks[balance.bank_index]
                engine == calc_weighted_assets_and_liabilities_values(
                              bank, balance, CheckedRegime)
                stated == StatedValues(bank, balance, CheckedRegime)
            IN  (engine.ret = "Ok" /\ stated.ret = "Ok")
                => (/\ engine.assets = stated.assets
                    /\ engine.liabilities = stated.liabilities)

====
